---- MODULE Spec2Model ----
(***************************************************************************)
(* HeraldStack local retrieval pipeline.                                   *)
(*   scripts/ingest_local.py : walk ROOT, embed the 800-character prefix   *)
(*                             of every *.md / *.json file, write a flat   *)
(*                             L2 index and a parallel metadata list.      *)
(*   scripts/ask_local.py    : embed a question, search the index for the  *)
(*                             3 nearest rows, re-read the files, chat.    *)
(* The filesystem, the embedding service and the chat service are the      *)
(* environment.  A text is described by the content it is a prefix of and  *)
(* its length in characters; a path by its name under ROOT.                *)
(***************************************************************************)
EXTENDS Integers, Sequences, FiniteSets, TLC

\* ------------------------------------------------------------------ bounds
\* entries in a tree, vector coordinates 0..MaxCoord, files removed or
\* rewritten while an ingest is embedding them, documents in the corpus a
\* query runs against, files changed between the ingest and the query
MaxFiles == 3
\* entries of a tree that ingest can read and post
MaxPostable == 2
\* coordinates 0..MaxIngestCoord of the vectors an ingest is answered with
MaxIngestCoord == 0
MaxCoord == 1
MaxDisturbed == 1
MaxDocs == 4
MaxEdits == 1
\* the ingest runs of a history: the script is run, and run once more
Runs == {1, 2}

\* ------------------------------------------------------- program constants
ChunkLen == 800
Timeout == 600
ProgressEvery == 10
K == 3

\* ---------------------------------------------------------------- helpers
Min(a, b) == IF a < b THEN a ELSE b

RECURSIVE Digits(_)
Digits(n) == IF n < 10 THEN 1 ELSE 1 + Digits(n \div 10)

RECURSIVE SumSeq(_)
SumSeq(s) == IF s = <<>> THEN 0 ELSE Head(s) + SumSeq(Tail(s))

RECURSIVE SelectIdx(_, _, _)
\* the members of s, ascending, as a sequence
SelectIdx(s, lo, hi) ==
    IF lo > hi THEN <<>>
    ELSE IF lo \in s THEN <<lo>> \o SelectIdx(s, lo + 1, hi)
    ELSE SelectIdx(s, lo + 1, hi)

Range(s) == {s[i] : i \in DOMAIN s}

\* ------------------------------------------------------------------ texts
\* A text: the first len characters of the content called doc.
UserText(id, n) == [kind |-> "user", id |-> id, recs |-> <<>>, len |-> n]

\* str[:n]
Prefix(t, n) == [t EXCEPT !.len = Min(t.len, n)]

\* json.dump(meta): "[" + ", ".join('{"path": "<p>", "bytes": <n>}') + "]"
ItemLen(r) == 23 + Len(r.path) + Digits(r.bytes)
JsonLen(recs) ==
    IF recs = <<>> THEN 2
    ELSE 2 + SumSeq([i \in DOMAIN recs |-> ItemLen(recs[i])]) + 2 * (Len(recs) - 1)
JsonDump(recs) == [kind |-> "json", id |-> "", recs |-> recs, len |-> JsonLen(recs)]

\* ------------------------------------------------------------- filesystem
MD == <<".", "m", "d">>
MDUpper == <<".", "M", "D">>
JSON == <<".", "j", "s", "o", "n">>
TXT == <<".", "t", "x", "t">>

\* kind: "file" a regular file, "dir" a directory, "dangling" a symbolic link
\* whose target is missing (stat raises).  readable: read_text succeeds.
FsEntry(name, suffix, kind, size, readable, text) ==
    [name |-> name, suffix |-> suffix, kind |-> kind, size |-> size,
     readable |-> readable, text |-> text]

\* The entries a tree is made of.
Catalogue == <<
    FsEntry("a.md", MD, "file", 500, TRUE, UserText("A", 500)),
    FsEntry("b.json", JSON, "file", 10, TRUE, UserText("B", 10)),
    FsEntry("c.txt", TXT, "file", 500, TRUE, UserText("C", 500)),
    FsEntry("dead.md", MD, "dangling", 0, FALSE, UserText("", 0)),
    FsEntry("E.MD", MDUpper, "file", 801, TRUE, UserText("E", 801)),
    FsEntry("f.md", MD, "file", 0, TRUE, UserText("", 0)),
    FsEntry("k.md", MD, "file", 7, FALSE, UserText("K", 7)) >>

MetaPath == "data/repo.meta.json"
MetaEntry(recs) == FsEntry(MetaPath, JSON, "file", JsonLen(recs), TRUE, JsonDump(recs))

\* ------------------------------------------------------- embedding service
Vecs == {<<x>> : x \in 0..MaxCoord}
NoVec == <<>>

\* body: "vector"    a JSON object whose "embedding" is a list of numbers
\*       "nofield"   a JSON object without "embedding"
\*       "notobject" JSON that is not a container (null, a number)
\*       "badvalue"  a JSON object whose "embedding" is not numeric (a string)
\*       "notjson"   not JSON
HttpResp(kind, status, body, vec) ==
    [kind |-> kind, status |-> status, body |-> body, vec |-> vec]
\* what POST /api/embeddings can come back with: an HTTP response (status and
\* body), a connection error, or silence
Responses(vs) ==
    {HttpResp("http", s, "vector", v) : s \in {200, 500}, v \in vs}
    \cup {HttpResp("http", s, "nofield", NoVec) : s \in {200, 500}}
    \cup {HttpResp("http", 200, b, NoVec) : b \in {"notobject", "badvalue", "notjson"}}
    \cup {HttpResp("connerr", 0, "", NoVec), HttpResp("silent", 0, "", NoVec)}
IngestVecs == {<<x>> : x \in 0..MaxIngestCoord}

VARIABLES
    tree,        \* the entries of ROOT this run's rglob lists, in the order the
                 \* filesystem gives them, each as it is now: [c, grown, gone]
    functional,  \* the embedding service answers a prompt the same way every time
    svc,         \* the answers a functional service has given: text -> response
    idxFile,     \* data/repo.index: [exists, rows]
    metaFile,    \* data/repo.meta.json: [exists, recs]
    run,         \* number of the ingest run
    ipc,         \* ingest: "scan", "embed", "done", "crashed"
    pos,         \* ingest: position in the traversal
    docs,        \* ingest: list of vectors (with the path each came from)
    meta,        \* ingest: list of {"path", "bytes"}
    file_count,  \* ingest
    inflight,    \* the HTTP request being waited for, or NoReq
    log,         \* ingest: lines printed by this run
    sent,        \* ingest: paths whose chunk was posted by this run
    embedded,    \* ingest: paths whose embedding was obtained by this run
    wrote,       \* ingest: this run wrote the index and the metadata
    disturbed,   \* number of files removed or rewritten between their read and
                 \* the stat of line 52
    before,      \* idxFile and metaFile when this run started
    first,       \* rows and paths persisted when the first run ended
    qpc,         \* query: "off", "start", "embed", "search", "context", "post",
                 \*        "chat", "done", "crashed"
    argv,        \* query: sys.argv[1:]
    question,    \* query
    q_vec,       \* query
    hits,        \* query: I[0], the labels the search returned
    blocks,      \* query: the texts read so far for the context, with their paths
    disk,        \* the files the query has read: path -> [exists, text]
    edits,       \* number of files found changed or missing since the ingest
    qresp,       \* query: the response to the question's embedding request
    chatSent,    \* query: the body posted to /api/chat
    chatResp,    \* query: the response to the chat request
    printed      \* query: what was printed

qvars == <<qpc, argv, question, q_vec, hits, blocks, disk, edits, qresp,
           chatSent, chatResp, printed>>

vars == <<tree, functional, svc, idxFile, metaFile, run, ipc, pos, docs, meta, file_count,
          inflight, log, sent, embedded, wrote, disturbed, before, first, qvars>>

\* a posted request; timeout 0 stands for requests' default, no timeout;
\* answered: the service will answer it (else only a timeout ends the wait)
NoReq == [to |-> "", timeout |-> 0, prompt |-> UserText("", 0), answered |-> FALSE]
Request(to, timeout, prompt, answered) ==
    [to |-> to, timeout |-> timeout, prompt |-> prompt, answered |-> answered]

Absent == [exists |-> FALSE, rows |-> <<>>]
AbsentMeta == [exists |-> FALSE, recs |-> <<>>]

\* an entry of ROOT: the catalogue's entry c, grown characters appended to it
\* since, gone when it was removed after this run listed it
Node(c) == [c |-> c, grown |-> 0, gone |-> FALSE]
Live(x) ==
    LET e == Catalogue[x.c]
    IN  [e EXCEPT !.size = @ + x.grown, !.text = [@ EXCEPT !.len = @ + x.grown]]

\* ROOT.rglob("*"): the entries of ROOT in the filesystem's order, then those
\* of data/.  Of data/ only repo.meta.json is listed: the directory itself and
\* repo.index have a suffix line 45 drops without a stat.
Traverse(t, mf) ==
    [i \in DOMAIN t |-> Live(t[i])]
        \o (IF mf.exists THEN <<MetaEntry(mf.recs)>> ELSE <<>>)
Walk == Traverse(tree, metaFile)

\* str.lower() on one character of a suffix
LowerMutant(ch) == ch
Lower(ch) ==
    CASE ch = "M" -> "m"
      [] ch = "D" -> "d"
      [] ch = "J" -> "j"
      [] ch = "S" -> "s"
      [] ch = "O" -> "o"
      [] ch = "N" -> "n"
      [] ch = "T" -> "t"
      [] ch = "X" -> "x"
      [] OTHER -> ch
SuffixLower(s) == [i \in DOMAIN s |-> Lower(s[i])]

\* path.suffix.lower() in {".md", ".json"}
SuffixOk(e) == SuffixLower(e.suffix) \in {MD, JSON}

\* path.stat() raises
StatRaises(e) == e.kind = "dangling"

\* ingest_local.embed: the vector, None with the line it prints, or the
\* exception it lets through.  r.json() on a body that is not JSON raises an
\* exception that is a RequestException in requests 2.27 and later and only a
\* ValueError before: either except clause may be the one that catches it.
EmbedResult(ok, vec, msg, exc) == [ok |-> ok, vec |-> vec, msg |-> msg, exc |-> exc]
EmbedIngest(r) ==
    IF r.kind \in {"connerr", "silent"} \/ r.status >= 400
    THEN {EmbedResult(FALSE, NoVec, "Error making embedding request", "")}
    ELSE CASE r.body = "notjson" ->
                {EmbedResult(FALSE, NoVec, "Error making embedding request", ""),
                 EmbedResult(FALSE, NoVec, "Error processing embedding response", "")}
           [] r.body = "notobject" ->
                {EmbedResult(FALSE, NoVec, "", "TypeError")}
           [] r.body = "nofield" ->
                {EmbedResult(FALSE, NoVec, "Warning: No embedding in response", "")}
           [] r.body = "badvalue" ->
                {EmbedResult(FALSE, NoVec, "Error processing embedding response", "")}
           [] OTHER ->
                {EmbedResult(TRUE, r.vec, "", "")}

\* line 52: path.stat() after the embedding; an entry of ROOT may have been
\* removed by then (stat raises) or had a character appended (another st_size)
StatResult(raises, size) == [raises |-> raises, size |-> size]
StatAgain(e) ==
    {StatResult(FALSE, e.size)}
    \cup (IF disturbed < MaxDisturbed /\ e.name # MetaPath
          THEN {StatResult(TRUE, 0), StatResult(FALSE, e.size + 1)}
          ELSE {})

Line(msg, path) == [msg |-> msg, path |-> path]

\* the service's answer to a prompt: any response; a functional service
\* repeats the answer it gave to the same prompt before
Answers(prompt) ==
    IF functional /\ prompt \in DOMAIN svc THEN {svc[prompt]}
    ELSE Responses(IF ipc = "off" THEN Vecs ELSE IngestVecs)
WillAnswer(prompt) == {r.kind # "silent" : r \in Answers(prompt)}
Remember(prompt, r) ==
    IF functional
    THEN [t \in DOMAIN svc \cup {prompt} |-> IF t = prompt THEN r ELSE svc[t]]
    ELSE svc

NoResp == HttpResp("", 0, "", NoVec)
NoChat == [kind |-> "", status |-> 0, content |-> FALSE]
NoBody == [model |-> "", messages |-> <<>>, stream |-> FALSE]

\* the query process is not part of the history
QueryOff ==
    /\ qpc = "off"
    /\ argv = <<>>
    /\ question = UserText("", 0)
    /\ q_vec = NoVec
    /\ hits = <<>>
    /\ blocks = <<>>
    /\ disk = <<>>
    /\ edits = 0
    /\ qresp = NoResp
    /\ chatSent = NoBody
    /\ chatResp = NoChat
    /\ printed = <<>>

\* an entry that lines 45-48 read and post
Postable(e) == SuffixOk(e) /\ ~StatRaises(e) /\ e.size > 0 /\ e.readable

\* at most MaxFiles entries, at most MaxPostable of them postable, listed in
\* any order
Trees ==
    UNION {{[i \in 1..n |-> Node(t[i])] :
                t \in {t \in [1..n -> DOMAIN Catalogue] :
                    /\ \A i, j \in 1..n : i # j => t[i] # t[j]
                    /\ Cardinality({i \in 1..n : Postable(Catalogue[t[i]])}) <= MaxPostable}} :
              n \in 0..MaxFiles}

Init ==
    /\ tree \in Trees
    /\ functional \in BOOLEAN
    /\ svc = <<>>
    /\ idxFile = Absent
    /\ metaFile = AbsentMeta
    /\ run = 1
    /\ ipc = "scan"
    /\ pos = 1
    /\ docs = <<>>
    /\ meta = <<>>
    /\ file_count = 0
    /\ inflight = NoReq
    /\ log = <<>>
    /\ sent = <<>>
    /\ embedded = <<>>
    /\ wrote = FALSE
    /\ disturbed = 0
    /\ before = [idx |-> Absent, meta |-> AbsentMeta]
    /\ first = [ended |-> FALSE, rows |-> 0, paths |-> <<>>]
    /\ QueryOff

\* line 45: the entry does not pass the filter
FilterOut ==
    /\ ipc = "scan"
    /\ pos <= Len(Walk)
    /\ LET e == Walk[pos] IN
        /\ ~SuffixOk(e) \/ (~StatRaises(e) /\ ~(e.size > 0))
        /\ pos' = pos + 1
    /\ UNCHANGED <<tree, functional, svc, idxFile, metaFile, run, ipc, docs, meta, file_count,
                   inflight, log, sent, embedded, wrote, disturbed, before, first, qvars>>

\* line 45: path.stat() raises outside the try block
FilterStatRaises ==
    /\ ipc = "scan"
    /\ pos <= Len(Walk)
    /\ LET e == Walk[pos] IN
        /\ SuffixOk(e) /\ StatRaises(e)
        /\ ipc' = "crashed"
    /\ UNCHANGED <<tree, functional, svc, idxFile, metaFile, run, pos, docs, meta, file_count,
                   inflight, log, sent, embedded, wrote, disturbed, before, first, qvars>>

\* lines 47, 58-59: read_text raises
ReadRaises ==
    /\ ipc = "scan"
    /\ pos <= Len(Walk)
    /\ LET e == Walk[pos] IN
        /\ SuffixOk(e) /\ ~StatRaises(e) /\ e.size > 0
        /\ ~e.readable
        /\ log' = Append(log, Line("Error processing file", e.name))
        /\ pos' = pos + 1
    /\ UNCHANGED <<tree, functional, svc, idxFile, metaFile, run, ipc, docs, meta, file_count,
                   inflight, sent, embedded, wrote, disturbed, before, first, qvars>>

\* lines 47-48, 20-24: read the chunk and post it
PostChunk ==
    /\ ipc = "scan"
    /\ pos <= Len(Walk)
    /\ LET e == Walk[pos]
           chunk == Prefix(e.text, ChunkLen)
       IN
        /\ SuffixOk(e) /\ ~StatRaises(e) /\ e.size > 0
        /\ e.readable
        /\ \E a \in WillAnswer(chunk) : inflight' = Request("embeddings", Timeout, chunk, a)
        /\ sent' = Append(sent, e.name)
        /\ ipc' = "embed"
    /\ UNCHANGED <<tree, functional, svc, idxFile, metaFile, run, pos, docs, meta, file_count,
                   log, embedded, wrote, disturbed, before, first, qvars>>

\* lines 25-38, 50-59: the request ends; append or skip
EmbedReturns ==
    /\ ipc = "embed"
    /\ \E r \in Answers(inflight.prompt) :
       \E res \in EmbedIngest(r), st \in StatAgain(Walk[pos]) :
        LET e == Walk[pos]
            count == file_count + 1
            said == IF res.msg = "" THEN log ELSE Append(log, Line(res.msg, ""))
        IN
        /\ (r.kind # "silent") = inflight.answered
        /\ r.kind = "silent" => inflight.timeout > 0
        /\ svc' = Remember(inflight.prompt, r)
        /\ IF res.exc # ""
           THEN \* embed raises: caught on line 58
                /\ st = StatResult(FALSE, e.size)
                /\ log' = Append(said, Line("Error processing file", e.name))
                /\ UNCHANGED <<tree, docs, meta, file_count, embedded, disturbed>>
           ELSE IF res.ok
           THEN /\ docs' = Append(docs, [vec |-> res.vec, src |-> e.name])
                /\ embedded' = Append(embedded, e.name)
                /\ disturbed' = IF st = StatResult(FALSE, e.size)
                                THEN disturbed ELSE disturbed + 1
                /\ tree' = IF st = StatResult(FALSE, e.size) THEN tree
                           ELSE IF st.raises THEN [tree EXCEPT ![pos].gone = TRUE]
                           ELSE [tree EXCEPT ![pos].grown = @ + 1]
                /\ IF st.raises
                   THEN /\ log' = Append(said, Line("Error processing file", e.name))
                        /\ UNCHANGED <<meta, file_count>>
                   ELSE /\ meta' = Append(meta, [path |-> e.name, bytes |-> st.size])
                        /\ file_count' = count
                        /\ log' = IF count % ProgressEvery = 0
                                  THEN Append(said, Line("Processed files...", ""))
                                  ELSE said
           ELSE \* embed returned None: the stat of line 52 is not reached
                /\ st = StatResult(FALSE, e.size)
                /\ log' = Append(said, Line("Skipping due to embedding failure", e.name))
                /\ UNCHANGED <<tree, docs, meta, file_count, embedded, disturbed>>
        /\ inflight' = NoReq
        /\ pos' = pos + 1
        /\ ipc' = "scan"
    /\ UNCHANGED <<functional, idxFile, metaFile, run, sent, wrote, before, first, qvars>>

\* lines 61-70: build and persist, or report that nothing was ingested
Finish ==
    /\ ipc = "scan"
    /\ pos > Len(Walk)
    /\ IF docs # <<>>
       THEN /\ idxFile' = [exists |-> TRUE, rows |-> docs]
            /\ metaFile' = [exists |-> TRUE, recs |-> meta]
            /\ wrote' = TRUE
            /\ log' = Append(log, Line("Ingested files", ""))
       ELSE /\ log' = Append(log, Line("No files ingested", ""))
            /\ UNCHANGED <<idxFile, metaFile, wrote>>
    /\ ipc' = "done"
    /\ UNCHANGED <<tree, functional, svc, run, pos, docs, meta, file_count, inflight, sent,
                   embedded, disturbed, before, first, qvars>>

\* python scripts/ingest_local.py, once more (lines 40-44): the new run lists
\* the entries that are still there
RunAgain ==
    /\ ipc \in {"done", "crashed"}
    /\ run + 1 \in Runs
    /\ tree' = SelectSeq(tree, LAMBDA x : ~x.gone)
    /\ run' = run + 1
    /\ ipc' = "scan"
    /\ pos' = 1
    /\ docs' = <<>>
    /\ meta' = <<>>
    /\ file_count' = 0
    /\ log' = <<>>
    /\ sent' = <<>>
    /\ embedded' = <<>>
    /\ wrote' = FALSE
    /\ before' = [idx |-> idxFile, meta |-> metaFile]
    /\ first' = IF run = 1
                THEN [ended |-> ipc = "done", rows |-> Len(idxFile.rows),
                      paths |-> [i \in DOMAIN metaFile.recs |-> metaFile.recs[i].path]]
                ELSE first
    /\ UNCHANGED <<functional, svc, idxFile, metaFile, inflight, disturbed, qvars>>

Next ==
    \/ FilterOut
    \/ FilterStatRaises
    \/ ReadRaises
    \/ PostChunk
    \/ EmbedReturns
    \/ Finish
    \/ RunAgain

Spec == Init /\ [][Next]_vars

\* =================================================================== query
\* The documents of the corpus the query runs against, in index-row order.
QNames == <<"d1.md", "d2.md", "d3.md", "d4.md", "d5.md", "d6.md">>
QLens == <<500, 10, 801, 800, 1200, 3>>
QDoc(i) == FsEntry(QNames[i], MD, "file", QLens[i], TRUE, UserText(QNames[i], QLens[i]))
QText(path) == QDoc(CHOOSE i \in DOMAIN QNames : QNames[i] = path).text

DefaultQuestion == [kind |-> "literal", id |-> "List all entity names.", recs |-> <<>>, len |-> 22]
EmptyText == [kind |-> "literal", id |-> "", recs |-> <<>>, len |-> 0]

\* " ".join(sys.argv[1:]) for at most one argument
JoinArgs(args) == IF args = <<>> THEN EmptyText ELSE args[1]
\* line 15
Question(args) == IF JoinArgs(args).len = 0 THEN DefaultQuestion ELSE JoinArgs(args)

\* squared Euclidean distance (IndexFlatL2)
RECURSIVE InnerProduct(_, _)
InnerProduct(u, v) ==
    IF u = <<>> THEN 0 ELSE Head(u) * Head(v) + InnerProduct(Tail(u), Tail(v))
RECURSIVE SqDist(_, _)
SqDistMutant(u, v) == -InnerProduct(u, v)
SqDist(u, v) ==
    IF u = <<>> THEN 0
    ELSE (Head(u) - Head(v)) * (Head(u) - Head(v)) + SqDist(Tail(u), Tail(v))

\* index.search(q, k): the labels (0-based rows) of the k nearest rows,
\* nearest first, in any order among equal distances; -1 where rows run out
RECURSIVE Nearest(_, _, _, _)
Nearest(rows, q, k, taken) ==
    IF k = 0 THEN {<<>>}
    ELSE LET rest == DOMAIN rows \ taken IN
         IF rest = {}
         THEN {<<-1>> \o t : t \in Nearest(rows, q, k - 1, taken)}
         ELSE LET best == {i \in rest :
                              \A o \in rest : SqDist(rows[i].vec, q) <= SqDist(rows[o].vec, q)}
              IN  UNION {{<<i - 1>> \o t : t \in Nearest(rows, q, k - 1, taken \cup {i})} :
                            i \in best}
Search(rows, q, k) == Nearest(rows, q, k, {})

\* list[i] in Python: negative i counts from the end
PyInRange(list, i) == -Len(list) <= i /\ i < Len(list)
PyAtMutant(list, i) == IF i >= 0 THEN list[Min(i + 2, Len(list))] ELSE list[Len(list) + i + 1]
PyAt(list, i) == IF i >= 0 THEN list[i + 1] ELSE list[Len(list) + i + 1]

\* ask_local.embed: the vector, or the exception that ends the process; the
\* status of the response is not looked at
EmbedAsk(r) ==
    IF r.kind \in {"connerr", "silent"}
    THEN [ok |-> FALSE, vec |-> NoVec, exc |-> "RequestException"]
    ELSE CASE r.body = "notjson" -> [ok |-> FALSE, vec |-> NoVec, exc |-> "JSONDecodeError"]
           [] r.body = "notobject" -> [ok |-> FALSE, vec |-> NoVec, exc |-> "TypeError"]
           [] r.body = "nofield" -> [ok |-> FALSE, vec |-> NoVec, exc |-> "KeyError"]
           [] r.body = "badvalue" -> [ok |-> FALSE, vec |-> NoVec, exc |-> "ValueError"]
           [] OTHER -> [ok |-> TRUE, vec |-> r.vec, exc |-> ""]

\* "\n\n".join(blocks) followed by "\n\n" and the question
Sep == [kind |-> "literal", id |-> "\n\n", recs |-> <<>>, len |-> 2]
RECURSIVE JoinBlocks(_)
JoinBlocks(bs) ==
    IF bs = <<>> THEN <<>>
    ELSE IF Len(bs) = 1 THEN <<Head(bs)>>
    ELSE <<Head(bs), Sep>> \o JoinBlocks(Tail(bs))
Content(bs, q) == JoinBlocks(bs) \o <<Sep, q>>
Payload(bs, q) ==
    [model |-> "harald-phi4",
     messages |-> <<[role |-> "user", content |-> Content(bs, q)]>>,
     stream |-> FALSE]

\* what POST /api/chat can come back with
ChatResponses ==
    {[kind |-> "http", status |-> s, content |-> c] : s \in {200, 500}, c \in BOOLEAN}
    \cup {[kind |-> "connerr", status |-> 0, content |-> FALSE],
          [kind |-> "silent", status |-> 0, content |-> FALSE]}

\* the text a file holds now: what was ingested, a rewrite of it, or no file
Rewritten(t) == [t EXCEPT !.id = "rewritten", !.len = 900]
OnDisk(path) ==
    IF path \in DOMAIN disk THEN {disk[path]}
    ELSE {[exists |-> TRUE, text |-> QText(path)]}
         \cup (IF edits < MaxEdits
               THEN {[exists |-> TRUE, text |-> Rewritten(QText(path))],
                     [exists |-> FALSE, text |-> EmptyText]}
               ELSE {})
Changed(path, f) == path \notin DOMAIN disk /\ (~f.exists \/ f.text # QText(path))

\* The state ask_local.py starts in (lines 4-7): the index and the metadata an
\* ingest of n documents left behind, each row the embedding of the
\* 800-character prefix of its document; lost: the rows whose record is
\* missing (the stat after the embedding failed).  A functional service still
\* answers those prefixes as it did.
InitQ ==
    /\ tree = <<>>
    /\ functional \in BOOLEAN
    /\ run = 1
    /\ ipc = "off"
    /\ pos = 1
    /\ docs = <<>>
    /\ meta = <<>>
    /\ file_count = 0
    /\ inflight = NoReq
    /\ log = <<>>
    /\ sent = <<>>
    /\ embedded = <<>>
    /\ wrote = FALSE
    /\ disturbed = 0
    /\ before = [idx |-> Absent, meta |-> AbsentMeta]
    /\ first = [ended |-> FALSE, rows |-> 0, paths |-> <<>>]
    /\ \E n \in 1..MaxDocs :
        \E vecOf \in [1..n -> Vecs],
           lost \in {l \in SUBSET (1..n) : Cardinality(l) <= MaxDisturbed} :
            LET kept == SelectIdx((1..n) \ lost, 1, n) IN
            /\ idxFile = [exists |-> TRUE,
                          rows |-> [i \in 1..n |-> [vec |-> vecOf[i], src |-> QNames[i]]]]
            /\ metaFile = [exists |-> TRUE,
                           recs |-> [i \in DOMAIN kept |->
                                       [path |-> QNames[kept[i]], bytes |-> QLens[kept[i]]]]]
            /\ svc = IF functional
                     THEN [t \in {Prefix(QDoc(i).text, ChunkLen) : i \in 1..n} |->
                            HttpResp("http", 200, "vector",
                                vecOf[CHOOSE i \in 1..n : Prefix(QDoc(i).text, ChunkLen) = t])]
                     ELSE <<>>
            /\ argv \in {<<>>} \cup {<<QDoc(i).text>> : i \in 1..n}
    /\ qpc = "start"
    /\ question = UserText("", 0)
    /\ q_vec = NoVec
    /\ hits = <<>>
    /\ blocks = <<>>
    /\ disk = <<>>
    /\ edits = 0
    /\ qresp = NoResp
    /\ chatSent = NoBody
    /\ chatResp = NoChat
    /\ printed = <<>>

ivars == <<tree, functional, idxFile, metaFile, run, ipc, pos, docs, meta, file_count, log,
           sent, embedded, wrote, disturbed, before, first>>

\* lines 15-16, 10-12: take the question and post it
PostQuestion ==
    /\ qpc = "start"
    /\ question' = Question(argv)
    /\ \E a \in WillAnswer(Question(argv)) :
        inflight' = Request("embeddings", Timeout, Question(argv), a)
    /\ qpc' = "embed"
    /\ UNCHANGED <<ivars, svc, argv, q_vec, hits, blocks, disk, edits, qresp,
                   chatSent, chatResp, printed>>

\* lines 13, 16: the request ends; the vector, or an uncaught exception
QuestionEmbedReturns ==
    /\ qpc = "embed"
    /\ \E r \in Answers(inflight.prompt) :
        LET res == EmbedAsk(r) IN
        /\ (r.kind # "silent") = inflight.answered
        /\ r.kind = "silent" => inflight.timeout > 0
        /\ svc' = Remember(inflight.prompt, r)
        /\ qresp' = r
        /\ q_vec' = res.vec
        /\ qpc' = IF res.ok THEN "search" ELSE "crashed"
    /\ inflight' = NoReq
    /\ UNCHANGED <<ivars, argv, question, hits, blocks, disk, edits, chatSent,
                   chatResp, printed>>

\* line 17
SearchIndex ==
    /\ qpc = "search"
    /\ \E I \in Search(idxFile.rows, q_vec, K) : hits' = I
    /\ qpc' = "context"
    /\ UNCHANGED <<ivars, svc, inflight, argv, question, q_vec, blocks, disk, edits,
                   qresp, chatSent, chatResp, printed>>

\* lines 19-22: the next label has no record (IndexError)
LookupRaises ==
    /\ qpc = "context"
    /\ Len(blocks) < Len(hits)
    /\ ~PyInRange(metaFile.recs, hits[Len(blocks) + 1])
    /\ qpc' = "crashed"
    /\ UNCHANGED <<ivars, svc, inflight, argv, question, q_vec, hits, blocks, disk,
                   edits, qresp, chatSent, chatResp, printed>>

\* lines 19-22: read the next label's file
ReadBlock ==
    /\ qpc = "context"
    /\ Len(blocks) < Len(hits)
    /\ PyInRange(metaFile.recs, hits[Len(blocks) + 1])
    /\ LET path == PyAt(metaFile.recs, hits[Len(blocks) + 1]).path IN
       \E f \in OnDisk(path) :
        /\ disk' = [p \in DOMAIN disk \cup {path} |-> IF p = path THEN f ELSE disk[p]]
        /\ edits' = IF Changed(path, f) THEN edits + 1 ELSE edits
        /\ IF f.exists
           THEN /\ blocks' = Append(blocks, [path |-> path, text |-> Prefix(f.text, ChunkLen)])
                /\ UNCHANGED qpc
           ELSE /\ qpc' = "crashed"
                /\ UNCHANGED blocks
    /\ UNCHANGED <<ivars, svc, inflight, argv, question, q_vec, hits, qresp,
                   chatSent, chatResp, printed>>

\* lines 24-29: build the payload and post it, with no timeout
PostChat ==
    /\ qpc = "context"
    /\ Len(blocks) = Len(hits)
    /\ chatSent' = Payload([i \in DOMAIN blocks |-> blocks[i].text], question)
    /\ \E a \in BOOLEAN : inflight' = Request("chat", 0, question, a)
    /\ qpc' = "chat"
    /\ UNCHANGED <<ivars, svc, argv, question, q_vec, hits, blocks, disk, edits,
                   qresp, chatResp, printed>>

\* lines 29-30: the chat request ends; print the answer, or an uncaught exception
ChatReturns ==
    /\ qpc = "chat"
    /\ \E r \in ChatResponses :
        /\ (r.kind # "silent") = inflight.answered
        /\ r.kind = "silent" => inflight.timeout > 0
        /\ chatResp' = r
        /\ IF r.kind = "http" /\ r.content
           THEN /\ printed' = <<"answer">>
                /\ qpc' = "done"
           ELSE /\ qpc' = "crashed"
                /\ UNCHANGED printed
    /\ inflight' = NoReq
    /\ UNCHANGED <<ivars, svc, argv, question, q_vec, hits, blocks, disk, edits,
                   qresp, chatSent>>

NextQ ==
    \/ PostQuestion
    \/ QuestionEmbedReturns
    \/ SearchIndex
    \/ LookupRaises
    \/ ReadBlock
    \/ PostChat
    \/ ChatReturns

SpecQ == InitQ /\ [][NextQ]_vars

\* the process runs while it can; a service that stays silent is not made to answer
FairSpecQ == SpecQ /\ WF_vars(NextQ)


\* ================================================================== claims
\* what this ingest run traverses (the metadata file is written after the loop)
RunWalk == Traverse(tree, before.meta)
Paths(recs) == [i \in DOMAIN recs |-> recs[i].path]
Said(msg, path) == Line(msg, path) \in Range(log)

\* C1: whenever an ingest run has persisted its output, the metadata has as many
\* records as the index has rows, and record i names the file row i came from.
C1_MetadataParallelToIndex ==
    (ipc = "done" /\ wrote) =>
        /\ Len(metaFile.recs) = Len(idxFile.rows)
        /\ \A i \in DOMAIN idxFile.rows \cap DOMAIN metaFile.recs :
              metaFile.recs[i].path = idxFile.rows[i].src

\* C2: a second ingest run over a tree nothing else touched, with the same
\* answers from the embedding service, persists as many rows and the same
\* paths in the same order as the first run did.
C2_SecondRunSameOutput ==
    (functional /\ run = 2 /\ ipc = "done" /\ first.ended /\ disturbed = 0) =>
        /\ Len(idxFile.rows) = first.rows
        /\ Paths(metaFile.recs) = first.paths

\* C3: no per-file error ends the run: the error is logged, the file is skipped,
\* the traversal goes on to the end, and a run in which some file was embedded
\* ends with index and metadata persisted, one row and one record per embedded file.
C3_PerFileErrorsNotFatal ==
    /\ ipc # "crashed"
    /\ \A i \in 1..(pos - 1) :
          (i <= Len(RunWalk) /\ RunWalk[i].kind = "file" /\ ~RunWalk[i].readable
              /\ RunWalk[i].suffix \in {MD, MDUpper, JSON} /\ RunWalk[i].size > 0)
          => Said("Error processing file", RunWalk[i].name)
    /\ ipc = "done" =>
          /\ pos > Len(RunWalk)
          /\ embedded # <<>> =>
                /\ wrote
                /\ Len(idxFile.rows) = Len(embedded)
                /\ Len(metaFile.recs) = Len(embedded)

\* C4: a run in which no file was embedded writes neither file, leaves the
\* files of an earlier run as they were, prints "No files ingested", and has
\* printed a line naming the file for every embedding request that failed.
C4_NothingIngested ==
    (ipc \in {"done", "crashed"} /\ embedded = <<>>) =>
        /\ ~wrote
        /\ idxFile = before.idx
        /\ metaFile = before.meta
        /\ Said("No files ingested", "")
        /\ \A i \in DOMAIN sent :
              \/ Said("Skipping due to embedding failure", sent[i])
              \/ Said("Error processing file", sent[i])

\* the entries of w that are files named *.md or *.json, in any letter case,
\* of positive size
MdOrJson(e) == e.suffix \in {MD, MDUpper, JSON}
EligibleFiles(w) ==
    {w[i].name : i \in {i \in DOMAIN w : w[i].kind = "file" /\ MdOrJson(w[i]) /\ w[i].size > 0}}
ScenarioTree == {e.name : e \in Range(RunWalk)} = {"a.md", "b.json", "c.txt"}
ServiceWorked == Len(embedded) = Len(sent)

\* C5 as stated: a finished run has posted exactly the files named *.md or
\* *.json (in any letter case) of positive size; on a.md (500), b.json (10),
\* c.txt (500) with a working service it posts a.md and b.json and persists
\* two records.
C5_PostsEveryEligibleFile ==
    ipc = "done" =>
        /\ Range(sent) = EligibleFiles(RunWalk)
        /\ (ScenarioTree /\ ServiceWorked /\ disturbed = 0) =>
              (/\ Len(sent) = 2 /\ Range(sent) = {"a.md", "b.json"}
               /\ Range(embedded) = {"a.md", "b.json"}
               /\ Len(metaFile.recs) = 2)

\* C5 amended: at every moment the run has posted exactly the entries it has
\* reached that are named *.md or *.json (in any letter case), have positive
\* size and whose text could be read; the scenario as above.
C5_PostsEveryReadableEligibleEntryReached ==
    LET reached == SubSeq(RunWalk, 1, IF ipc = "embed" THEN pos ELSE Min(pos - 1, Len(RunWalk)))
    IN  ipc \in {"scan", "embed", "done", "crashed"} =>
        /\ Range(sent) =
              {reached[i].name : i \in {i \in DOMAIN reached :
                    /\ reached[i].kind = "file" /\ MdOrJson(reached[i])
                    /\ reached[i].size > 0 /\ reached[i].readable}}
        /\ (ipc = "done" /\ ScenarioTree /\ ServiceWorked /\ disturbed = 0) =>
              (/\ Len(sent) = 2 /\ Range(sent) = {"a.md", "b.json"}
               /\ Range(embedded) = {"a.md", "b.json"}
               /\ Len(metaFile.recs) = 2)

\* C5 witness: the scenario tree, listed b.json, a.md, c.txt, ingested to the
\* end with a working service.
C5_Witness ==
    /\ ipc = "done" /\ ScenarioTree /\ ServiceWorked /\ disturbed = 0
    /\ sent = <<"b.json", "a.md">>
    /\ tree = <<Node(2), Node(1), Node(3)>>
    /\ Paths(metaFile.recs) = <<"b.json", "a.md">>


\* ----------------------------------------------------------- query claims
Rows == idxFile.rows
Recs == metaFile.recs
\* distance of the row with label l to the question's vector
RowDist(l) == SqDist(Rows[l + 1].vec, q_vec)
\* the first 800 characters of t
First800(t, b) ==
    /\ b.kind = t.kind /\ b.id = t.id
    /\ b.len = IF t.len > 800 THEN 800 ELSE t.len
Failed(r) == r.kind \in {"connerr", "silent"} \/ r.status >= 400
NoField(r) == r.body # "vector"

\* C6: with at least 3 rows and the question embedded, the body posted to the
\* chat service is one user message: the first 800 characters, as they are on
\* disk now, of the files of the records at the 3 rows nearest to the
\* question's vector, nearest first, then the question.
C6_ContextIsThreeNearest ==
    (Len(Rows) >= 3 /\ chatSent # NoBody) =>
        /\ Len(hits) = 3 /\ Len(blocks) = 3
        /\ \A j \in 1..3 : hits[j] \in 0..(Len(Rows) - 1) /\ hits[j] < Len(Recs)
        /\ \A j, k \in 1..3 : j # k => hits[j] # hits[k]
        /\ \A j \in 1..2 : RowDist(hits[j]) <= RowDist(hits[j + 1])
        /\ \A l \in 0..(Len(Rows) - 1) :
              l \notin Range(hits) => RowDist(l) >= RowDist(hits[3])
        /\ \A j \in 1..3 :
              /\ blocks[j].path = Recs[hits[j] + 1].path
              /\ disk[blocks[j].path].exists
              /\ First800(disk[blocks[j].path].text, blocks[j].text)
        /\ question = (IF argv = <<>> THEN DefaultQuestion ELSE argv[1])
        /\ chatSent.messages =
              <<[role |-> "user",
                 content |-> <<blocks[1].text, Sep, blocks[2].text, Sep, blocks[3].text,
                               Sep, question>>]>>

\* C6 witness: 4 rows, the nearest nearer than the third result and than the
\* row left out, a file rewritten since the ingest to more than 800
\* characters, and the body posted.
C6_Witness ==
    /\ Len(Rows) = 4 /\ Len(Recs) = 4
    /\ chatSent # NoBody
    /\ \E l \in 0..3 : l \notin Range(hits) /\ RowDist(l) > RowDist(hits[1])
    /\ RowDist(hits[1]) < RowDist(hits[3])
    /\ \E j \in 1..3 : disk[blocks[j].path].text.len > 800 /\ edits = 1

\* the document of row i was given, in full, as the question
AskedFor(i) == i \in DOMAIN Rows /\ argv = <<QDoc(i).text>> /\ hits # <<>>
Returned(i) ==
    \E j \in DOMAIN hits :
        PyInRange(Recs, hits[j]) /\ PyAt(Recs, hits[j]).path = QNames[i]

\* C7 as stated: asked the full text of any ingested document, the query has
\* that document among its 3 results.
C7_RoundTrip ==
    \A i \in DOMAIN Rows :
        (functional /\ AskedFor(i) /\ Len(Recs) = Len(Rows)) => Returned(i)

\* C7 amended: asked the full text of an ingested document of at most 800
\* characters, the search returns that document's row among its 3 labels,
\* provided at most two other rows hold the same vector.
C7_RoundTripWithinPrefix ==
    \A i \in DOMAIN Rows :
        (/\ functional
         /\ AskedFor(i)
         /\ QLens[i] <= 800
         /\ Cardinality({o \in DOMAIN Rows : o # i /\ Rows[o].vec = Rows[i].vec}) <= 2)
        => (i - 1) \in Range(hits)

\* C7 witness: 4 rows, the fourth document (800 characters) asked for and
\* returned while another row lies farther away and is left out.
C7_Witness ==
    /\ functional
    /\ Len(Rows) = 4
    /\ AskedFor(4)
    /\ 3 \in Range(hits)
    /\ \E l \in 0..3 : l \notin Range(hits) /\ RowDist(l) > 0

\* C8: a failed embedding of the question (no response, a status of 400 or
\* more, no "embedding" field) or a failed chat request ends the process with
\* nothing printed, and after a failed embedding no search is made and no chat
\* request posted.
C8_FailuresAreFatal ==
    /\ (qresp # NoResp /\ (Failed(qresp) \/ NoField(qresp))) =>
          (qpc = "crashed" /\ hits = <<>> /\ chatSent = NoBody /\ printed = <<>>)
    /\ (chatResp # NoChat /\ (Failed(chatResp) \/ ~chatResp.content)) =>
          (qpc = "crashed" /\ printed = <<>>)

\* C9: every request waited for carries the timeout, and the query process
\* eventually ends.
C9_RequestsBoundedAndTerminates ==
    /\ [](inflight.to # "" => inflight.timeout = Timeout)
    /\ <>(qpc \in {"done", "crashed"})

\* C10: every label used to look up a record is a row position the search
\* returned as a hit, 0 <= i < number of records, and no file is read twice
\* for the context.
C10_OnlyGenuineHits ==
    /\ \A j \in DOMAIN blocks : 0 <= hits[j] /\ hits[j] < Len(Recs)
    /\ \A j, k \in DOMAIN blocks : j # k => blocks[j].path # blocks[k].path


====
